---- MODULE Spec2Model ----
(***************************************************************************)
(* TransactionConfirmationWorkflow                                         *)
(* (packages/web3-core-method/src/workflows/TransactionConfirmationWorkflow.js) *)
(*                                                                         *)
(* One workflow instance confirming one transaction hash.  The event loop  *)
(* runs one handler to completion at a time, so each handler is one        *)
(* action:                                                                 *)
(*   Execute        execute() up to the first provider.send       (55-68)  *)
(*   FirstResponse  the continuation of the first receipt fetch   (68-82)  *)
(*   NewHead        the 'newHead' listener                        (82-118) *)
(*   HeadResponse   the continuation of a head-triggered re-fetch (85-106) *)
(*                                                                         *)
(* JavaScript values are encoded as tuples of strings: null is <<>>,       *)
(* true/false are <<"true">>/<<"false">>, a raw JSON receipt is            *)
(* <<"raw", blockHash, status>>, a formatted receipt is                    *)
(* <<"receipt", blockHash, status>>, an Error is <<"Error", message..>>.   *)
(***************************************************************************)
EXTENDS Integers, Sequences, FiniteSets, TLC

(* ------------------------------ bounds -------------------------------- *)

\* transactionConfirmationModel.TIMEOUTBLOCK: head notifications allowed in push mode
TIMEOUTBLOCK == 3

\* transactionConfirmationModel.POLLINGTIMEOUT: head notifications allowed in polling mode
POLLINGTIMEOUT == 4

\* largest configured confirmation depth explored
MaxRequiredConfirmations == 3

(* ------------------------------ values -------------------------------- *)

Null == <<>>

JsTrue == <<"true">>

JsFalse == <<"false">>

\* a receipt of a pending transaction carries no block hash
BlockHashes == {"null", "0xb10c"}

RawStatuses == {"0x1", "0x0"}

\* what provider.send('eth_getTransactionReceipt', [hash]) can resolve to
RawResponses == {Null} \cup {<<"raw", bh, st>> : bh \in BlockHashes, st \in RawStatuses}

TransportError == <<"Error", "transport">>

\* resolutions and the rejection of provider.send
ProviderOutcomes == RawResponses \cup {TransportError}

\* the TypeError of reading a property of undefined
TypeError == "TypeError"

(* ----------------------- external collaborators ----------------------- *)

\* formatters.outputTransactionReceiptFormatter: decodes the raw JSON; an absent
\* receipt stays absent
outputTransactionReceiptFormatter(raw) ==
    IF raw = Null THEN Null
    ELSE <<"receipt", raw[2], IF raw[3] = "0x1" THEN "true" ELSE "false">>

\* transactionReceiptValidator.validate on a receipt object: true, or the diagnostic
validate(receipt) ==
    IF receipt[3] = "true" THEN JsTrue
    ELSE <<"Error", "reverted", receipt[2]>>

\* what validate returns when it is handed null and does not throw
NullDiagnostic == <<"Error", "invalid receipt", "null">>

\* methodModel.afterExecution: the mapping applied to the final receipt
afterExecution(receipt) == <<"mapped", receipt[2], receipt[3]>>

(* ------------------------------- state -------------------------------- *)

VARIABLES
    pc,                     \* "constructed" | "executed"
    thisArg,                \* receiver the provider's thenable gives its continuations
    isPolling,              \* newHeadsWatcher.isPolling
    requiredConfirmations,  \* configured confirmation depth
    nullValidation,         \* validate(null): "throws" | "diagnostic"
    firstPending,           \* the first receipt fetch is outstanding
    headPending,            \* number of outstanding head-triggered re-fetches
    firstReceipt,           \* what the first fetch yielded (<<"none">> before / without a yield)
    lastReceipt,            \* what the latest head-triggered re-fetch yielded
    yields,                 \* number of head-triggered re-fetches that yielded
    watcher,                \* "idle" | "watching" | "stopped"
    watchCalls,             \* calls of newHeadsWatcher.watch
    timeoutCounter,         \* transactionConfirmationModel.timeoutCounter
    confirmationsCount,     \* transactionConfirmationModel.confirmationsCount
    resolved,               \* arguments of promiEvent.resolve, in call order
    rejected,               \* arguments of promiEvent.reject, in call order
    emitted,                \* promiEvent.eventEmitter.emit calls: <<event, arg1, arg2>>
    removed,                \* calls of eventEmitter.removeAllListeners
    callbacks,              \* callback calls: <<error, result>>
    sendRejections,         \* number of provider.send promises that rejected
    uncaught                \* errors thrown out of a handler and caught by nobody

config == <<thisArg, isPolling, requiredConfirmations, nullValidation>>

vars == <<pc, thisArg, isPolling, requiredConfirmations, nullValidation, firstPending,
          headPending, firstReceipt, lastReceipt, yields, watcher, watchCalls,
          timeoutCounter, confirmationsCount, resolved, rejected, emitted, removed,
          callbacks, sendRejections, uncaught>>

\* The receiver of a continuation is chosen by the thenable provider.send returns:
\*   "undefined"  a Promises/A+ thenable (strict mode: this is undefined)
\*   "provider"   an object exposing formatters, but none of the workflow's members
\*   "workflow"   the workflow itself, with formatters attached to it
ThisArgs == {"undefined", "provider", "workflow"}

Init ==
    /\ pc = "constructed"
    /\ thisArg \in ThisArgs
    /\ isPolling \in BOOLEAN
    /\ requiredConfirmations \in 1..MaxRequiredConfirmations
    /\ nullValidation \in {"throws", "diagnostic"}
    /\ firstPending = FALSE
    /\ headPending = 0
    /\ firstReceipt = <<"none">>
    /\ lastReceipt = <<"none">>
    /\ yields = 0
    /\ watcher = "idle"
    /\ watchCalls = 0
    /\ timeoutCounter = 0
    /\ confirmationsCount = 0
    /\ resolved = <<>>
    /\ rejected = <<>>
    /\ emitted = <<>>
    /\ removed = 0
    /\ callbacks = <<>>
    /\ sendRejections = 0
    /\ uncaught = {}

(* ------------------------ confirmation model -------------------------- *)

\* transactionConfirmationModel.isConfirmed()
isConfirmed(count) == count >= requiredConfirmations

\* transactionConfirmationModel.isTimeoutTimeExceeded(): the counter has passed the
\* threshold of the watcher's mode
isTimeoutTimeExceeded(counter) ==
    IF isPolling THEN counter > POLLINGTIMEOUT ELSE counter > TIMEOUTBLOCK

(* ----------------------------- handlers ------------------------------- *)

\* this.formatters inside the continuation of provider.send (line 133)
HasFormatters == thisArg \in {"provider", "workflow"}

\* this.transactionReceiptValidator / this.handleSuccessState inside the
\* continuation of the first fetch (lines 70, 72)
HasWorkflowMembers == thisArg = "workflow"

\* line 69 reading a property the receipt does not have (always falsy)
IsMinedMisspelled(receipt) == FALSE

\* receipt && receipt.blockHash (line 69)
IsMined(receipt) == receipt # Null /\ receipt[2] # "null"

\* handleSuccessState(receipt), entered with `em` already emitted by the caller
handleSuccessState(receipt, em) ==
    LET mappedReceipt == afterExecution(receipt) IN
    /\ watcher' = "stopped"
    /\ resolved' = Append(resolved, mappedReceipt)
    /\ emitted' = Append(em, <<"receipt", mappedReceipt, Null>>)
    /\ removed' = removed + 1
    /\ callbacks' = Append(callbacks, <<JsFalse, mappedReceipt>>)
    /\ UNCHANGED <<rejected, uncaught>>

\* handleErrorState(error): reject(error) returns undefined, so .apply(error) throws
\* before the emit, the removeAllListeners and the callback
handleErrorState(error) ==
    /\ watcher' = "stopped"
    /\ rejected' = Append(rejected, error)
    /\ uncaught' = uncaught \cup {TypeError}
    /\ UNCHANGED <<resolved, emitted, removed, callbacks>>

\* a handler that throws before it changed anything
Throws(error) ==
    /\ uncaught' = uncaught \cup {error}
    /\ UNCHANGED <<watcher, resolved, rejected, emitted, removed, callbacks>>

\* the timeout branch without its isPolling case
TimeoutErrorBlocksOnly(polling) ==
    <<"Error", "not mined within blocks", "TIMEOUTBLOCK">>

\* the error of the timeout branch (lines 111-115)
TimeoutError(polling) ==
    IF polling THEN <<"Error", "not mined within seconds", "POLLINGTIMEOUT">>
    ELSE <<"Error", "not mined within blocks", "TIMEOUTBLOCK">>

\* execute(): stores its arguments and sends the first receipt request
Execute ==
    /\ pc = "constructed"
    /\ pc' = "executed"
    /\ firstPending' = TRUE
    /\ UNCHANGED <<config, headPending, firstReceipt, lastReceipt, yields, watcher,
                   watchCalls, timeoutCounter, confirmationsCount, resolved, rejected,
                   emitted, removed, callbacks, sendRejections, uncaught>>

\* the continuation of the first fetch (lines 68-82), given the formatted receipt
FirstCheck(receipt) ==
    IF IsMined(receipt)
    THEN /\ watchCalls' = watchCalls
         /\ IF ~HasWorkflowMembers
            THEN Throws(TypeError)
            ELSE IF validate(receipt) = JsTrue
                 THEN handleSuccessState(receipt, emitted)
                 ELSE handleErrorState(validate(receipt))
    ELSE /\ watcher' = "watching"
         /\ watchCalls' = watchCalls + 1
         /\ UNCHANGED <<resolved, rejected, emitted, removed, callbacks, uncaught>>

\* the provider settles the first request
FirstResponse ==
    /\ firstPending
    /\ firstPending' = FALSE
    /\ \E outcome \in ProviderOutcomes :
          IF outcome = TransportError
          THEN /\ Throws(TransportError[2])
               /\ sendRejections' = sendRejections + 1
               /\ UNCHANGED <<firstReceipt, watchCalls>>
          ELSE IF ~HasFormatters
               THEN /\ Throws(TypeError)
                    /\ UNCHANGED <<firstReceipt, watchCalls, sendRejections>>
               ELSE /\ firstReceipt' = outputTransactionReceiptFormatter(outcome)
                    /\ sendRejections' = sendRejections
                    /\ FirstCheck(outputTransactionReceiptFormatter(outcome))
    /\ UNCHANGED <<pc, config, headPending, lastReceipt, yields, timeoutCounter,
                   confirmationsCount>>

\* the 'newHead' listener with the check of line 84 made before the increment of
\* line 83
NewHeadCheckBeforeIncrement ==
    /\ watcher = "watching"
    /\ timeoutCounter' = timeoutCounter + 1
    /\ IF ~isTimeoutTimeExceeded(timeoutCounter)
       THEN /\ headPending' = headPending + 1
            /\ UNCHANGED <<watcher, resolved, rejected, emitted, removed, callbacks,
                           uncaught>>
       ELSE /\ headPending' = headPending
            /\ handleErrorState(TimeoutError(isPolling))
    /\ UNCHANGED <<pc, config, firstPending, firstReceipt, lastReceipt, yields,
                   watchCalls, confirmationsCount, sendRejections>>

\* the 'newHead' listener (lines 82-84, 108-117)
NewHead ==
    /\ watcher = "watching"
    /\ timeoutCounter' = timeoutCounter + 1
    /\ IF ~isTimeoutTimeExceeded(timeoutCounter + 1)
       THEN /\ headPending' = headPending + 1
            /\ UNCHANGED <<watcher, resolved, rejected, emitted, removed, callbacks,
                           uncaught>>
       ELSE /\ headPending' = headPending
            /\ handleErrorState(TimeoutError(isPolling))
    /\ UNCHANGED <<pc, config, firstPending, firstReceipt, lastReceipt, yields,
                   watchCalls, confirmationsCount, sendRejections>>

\* lines 87-99 without the isConfirmed() guard of line 95
ConfirmedUnguarded(receipt) ==
    /\ confirmationsCount' = confirmationsCount + 1
    /\ handleSuccessState(receipt,
            Append(emitted, <<"confirmation", confirmationsCount + 1, receipt>>))

\* lines 87-99 with the emit of line 89 placed before addConfirmation of line 88
ConfirmedStaleCount(receipt) ==
    /\ confirmationsCount' = confirmationsCount + 1
    /\ IF isConfirmed(confirmationsCount + 1)
       THEN handleSuccessState(receipt,
                Append(emitted, <<"confirmation", confirmationsCount, receipt>>))
       ELSE /\ emitted' = Append(emitted, <<"confirmation", confirmationsCount, receipt>>)
            /\ UNCHANGED <<watcher, resolved, rejected, removed, callbacks, uncaught>>

\* lines 87-99: the re-fetched receipt validated as true
Confirmed(receipt) ==
    /\ confirmationsCount' = confirmationsCount + 1
    /\ IF isConfirmed(confirmationsCount + 1)
       THEN handleSuccessState(receipt,
                Append(emitted, <<"confirmation", confirmationsCount + 1, receipt>>))
       ELSE /\ emitted' = Append(emitted, <<"confirmation", confirmationsCount + 1, receipt>>)
            /\ UNCHANGED <<watcher, resolved, rejected, removed, callbacks, uncaught>>

\* lines 102-105: the re-fetched receipt did not validate
Invalid(validationResult, receipt) ==
    /\ rejected' = Append(rejected, validationResult)
    /\ emitted' = Append(emitted, <<"error", validationResult, receipt>>)
    /\ removed' = removed + 1
    /\ callbacks' = Append(callbacks, <<validationResult, Null>>)
    /\ UNCHANGED <<watcher, resolved, confirmationsCount, uncaught>>

\* the continuation of a head-triggered re-fetch (lines 85-106)
Recheck(receipt) ==
    IF receipt = Null
    THEN IF nullValidation = "throws"
         THEN Throws(TypeError) /\ UNCHANGED confirmationsCount
         ELSE Invalid(NullDiagnostic, receipt)
    ELSE IF validate(receipt) = JsTrue
         THEN Confirmed(receipt)
         ELSE Invalid(validate(receipt), receipt)

\* the provider settles one head-triggered request
HeadResponse ==
    /\ headPending > 0
    /\ headPending' = headPending - 1
    /\ \E outcome \in ProviderOutcomes :
          IF outcome = TransportError
          THEN /\ Throws(TransportError[2])
               /\ sendRejections' = sendRejections + 1
               /\ UNCHANGED <<lastReceipt, yields, confirmationsCount>>
          ELSE IF ~HasFormatters
               THEN /\ Throws(TypeError)
                    /\ UNCHANGED <<lastReceipt, yields, confirmationsCount, sendRejections>>
               ELSE /\ lastReceipt' = outputTransactionReceiptFormatter(outcome)
                    /\ sendRejections' = sendRejections
                    /\ yields' = yields + 1
                    /\ Recheck(outputTransactionReceiptFormatter(outcome))
    /\ UNCHANGED <<pc, config, firstPending, firstReceipt, watchCalls, timeoutCounter>>

Next == Execute \/ FirstResponse \/ NewHead \/ HeadResponse

Spec == Init /\ [][Next]_vars

\* The provider eventually settles every request it was sent, and the watcher keeps
\* delivering head notifications for as long as it is watching.
Fairness ==
    /\ WF_vars(Execute)
    /\ WF_vars(FirstResponse)
    /\ WF_vars(HeadResponse)
    /\ WF_vars(NewHead)

FairSpec == Spec /\ Fairness

(* ------------------------------ claims -------------------------------- *)

Range(seq) == {seq[i] : i \in 1..Len(seq)}

\* positions in the emit log `em` of the emissions of `event`
EmissionsIn(em, event) == {i \in 1..Len(em) : em[i][1] = event}

Emissions(event) == EmissionsIn(emitted, event)

\* "confirmation" emissions that precede position i of the emit log
ConfirmationsBefore(i) == Cardinality({j \in Emissions("confirmation") : j < i})

\* resolve() plus reject() calls so far
Settlements == Len(resolved) + Len(rejected)

\* the first fetch yielded a receipt with a block hash
FirstMined == Len(firstReceipt) = 3 /\ firstReceipt[2] # "null"

BlocksError == <<"Error", "not mined within blocks", "TIMEOUTBLOCK">>

SecondsError == <<"Error", "not mined within seconds", "POLLINGTIMEOUT">>

\* C1: resolve() and reject() are called at most once in total on the result object.
C1_AtMostOneSettlement == Settlements <= 1

\* C2: once the result is resolved or rejected, no step emits another event or
\* invokes the callback again.
C2_InertAfterTerminal ==
    [][Settlements >= 1 => (emitted' = emitted /\ callbacks' = callbacks)]_vars

\* C3: in every state where the result is resolved or rejected, the head watcher
\* is stopped.
C3_SettledImpliesStopped == Settlements >= 1 => watcher = "stopped"

\* C4: a first fetch yielding a mined, valid receipt resolves with
\* afterExecution(receipt), calls callback(false, mappedReceipt) exactly once and
\* never calls watch().
C4_FirstCheckSuccess ==
    (FirstMined /\ validate(firstReceipt) = JsTrue) =>
        /\ resolved = <<afterExecution(firstReceipt)>>
        /\ callbacks = << <<JsFalse, afterExecution(firstReceipt)>> >>
        /\ rejected = <<>>
        /\ watchCalls = 0

\* C5: a first fetch yielding a mined receipt that fails validation rejects with the
\* validator's value and calls callback(validationError, null) exactly once.
C5_FirstCheckInvalid ==
    (FirstMined /\ validate(firstReceipt) # JsTrue) =>
        /\ rejected = <<validate(firstReceipt)>>
        /\ callbacks = << <<validate(firstReceipt), Null>> >>

\* C6: when the transaction was not mined at the first check, every resolve happens
\* with confirmationsCount >= requiredConfirmations, confirmationsCount is the
\* number of valid receipts observed ("confirmation" emissions), and the first
\* resolve comes after exactly requiredConfirmations of them.
C6_ResolveOnlyAtDepth ==
    watchCalls = 1 =>
        /\ confirmationsCount = Cardinality(Emissions("confirmation"))
        /\ Len(resolved) = Cardinality(Emissions("receipt"))
        /\ resolved # <<>> => confirmationsCount >= requiredConfirmations
        /\ \A i \in Emissions("receipt") :
              /\ ConfirmationsBefore(i) >= requiredConfirmations
              /\ (\A j \in Emissions("receipt") : i <= j)
                    => ConfirmationsBefore(i) = requiredConfirmations

C6_Witness ==
    /\ requiredConfirmations = 3
    /\ watchCalls = 1
    /\ Len(resolved) = 1
    /\ confirmationsCount = 3

\* a step of the 'newHead' listener
HeadStep == timeoutCounter' = timeoutCounter + 1

\* a step in which a head-triggered re-fetch yields a receipt that validates
ValidYieldStep ==
    /\ yields' = yields + 1
    /\ lastReceipt' # Null
    /\ validate(lastReceipt') = JsTrue

\* what a valid yield does: one more confirmation, emitted once with the new count
CountsOneConfirmation ==
    /\ confirmationsCount' = confirmationsCount + 1
    /\ Len(emitted') > Len(emitted)
    /\ emitted'[Len(emitted) + 1] = <<"confirmation", confirmationsCount', lastReceipt'>>
    /\ Cardinality(EmissionsIn(emitted', "confirmation"))
          = Cardinality(Emissions("confirmation")) + 1

\* C7 (as stated): every head notification issues exactly one re-fetch, and a
\* re-fetch yielding a valid receipt adds exactly 1 to confirmationsCount and emits
\* one "confirmation" with the updated count and that receipt.
C7_Original ==
    [][/\ HeadStep => headPending' = headPending + 1
       /\ ValidYieldStep => CountsOneConfirmation]_vars

\* C7 (amended): a head notification issues exactly one re-fetch unless
\* isTimeoutTimeExceeded() holds after the increment, when it issues none; a
\* re-fetch yielding a valid receipt adds exactly 1 to confirmationsCount and emits
\* one "confirmation" with the updated count and that receipt.
C7_OneRefetchPerLiveHead ==
    [][/\ HeadStep =>
            headPending' = headPending
                + (IF isTimeoutTimeExceeded(timeoutCounter') THEN 0 ELSE 1)
       /\ ValidYieldStep => CountsOneConfirmation]_vars

C7_Witness ==
    /\ confirmationsCount = 2
    /\ Cardinality(Emissions("confirmation")) = 2
    /\ isTimeoutTimeExceeded(timeoutCounter)
    /\ headPending = 0

C9_TransportErrorSurfaced ==
    sendRejections > 0 =>
        /\ TransportError \in Range(rejected)
        /\ <<TransportError, Null>> \in Range(callbacks)

\* C10: every resolve() comes with one "receipt" emission, one removeAllListeners()
\* and one callback(false, mappedReceipt); every reject() with one "error"
\* emission, one removeAllListeners() and one callback(error, null).
C10_SettlementComplete ==
    /\ Cardinality(Emissions("receipt")) = Len(resolved)
    /\ Cardinality({i \in 1..Len(callbacks) : callbacks[i][1] = JsFalse}) = Len(resolved)
    /\ \A i \in 1..Len(resolved) : <<JsFalse, resolved[i]>> \in Range(callbacks)
    /\ Cardinality(Emissions("error")) = Len(rejected)
    /\ Cardinality({i \in 1..Len(callbacks) : callbacks[i][1] # JsFalse}) = Len(rejected)
    /\ \A i \in 1..Len(rejected) : <<rejected[i], Null>> \in Range(callbacks)
    /\ removed = Settlements

\* C11: under fairness (every fetch is eventually answered, head notifications keep
\* being delivered while the watcher watches) the result is eventually resolved or
\* rejected and the callback is eventually invoked.
C11_EventuallyTerminal == <>(Settlements >= 1 /\ callbacks # <<>>)

\* a step in which a head-triggered re-fetch yields (fulfils with) a receipt or null
YieldStep == yields' = yields + 1

\* C12: confirmationsCount increases only in a step whose re-fetched receipt exists
\* and has a non-null block hash.
C12_CountOnlyForMinedReceipt ==
    [][confirmationsCount' > confirmationsCount
          => (YieldStep /\ IsMined(lastReceipt'))]_vars

\* C13: a head-triggered re-fetch that returns no receipt causes no reject, no
\* emission and no callback, and leaves the watcher watching.
C13_AbsentReceiptKeepsWaiting ==
    [][(YieldStep /\ lastReceipt' = Null)
          => /\ rejected' = rejected
             /\ emitted' = emitted
             /\ callbacks' = callbacks
             /\ watcher' = watcher]_vars

\* C14: every head notification increments timeoutCounter by one and checks the
\* threshold on the incremented value before fetching: a re-fetch is issued only by
\* a head notification that leaves the threshold unexceeded, and a head
\* notification that exceeds it sends no fetch and leaves confirmationsCount alone.
C14_TimeoutCheckedBeforeRefetch ==
    [][/\ timeoutCounter' # timeoutCounter => HeadStep
       /\ headPending' > headPending
             => (HeadStep /\ ~isTimeoutTimeExceeded(timeoutCounter'))
       /\ (HeadStep /\ isTimeoutTimeExceeded(timeoutCounter'))
             => (headPending' = headPending /\ confirmationsCount' = confirmationsCount)
       /\ (HeadStep /\ ~isTimeoutTimeExceeded(timeoutCounter'))
             => headPending' = headPending + 1]_vars

C14_Witness ==
    /\ ~isPolling
    /\ timeoutCounter = TIMEOUTBLOCK + 1
    /\ headPending = TIMEOUTBLOCK
    /\ BlocksError \in Range(rejected)

\* C15: once confirmationsCount >= 1, head notifications no longer increment
\* timeoutCounter and no timeout error is produced.
C15_TimeoutOnlyBeforeMining ==
    [][confirmationsCount >= 1
          => /\ timeoutCounter' = timeoutCounter
             /\ (Range(rejected') \ Range(rejected)) \cap {BlocksError, SecondsError} = {}]_vars

\* C16: at most one receipt fetch is outstanding at any time.
C16_OneOutstandingFetch == (IF firstPending THEN 1 ELSE 0) + headPending <= 1

\* C17: confirmationsCount never exceeds requiredConfirmations, and no
\* "confirmation" emission carries a count above requiredConfirmations.
C17_CountBoundedByRequired ==
    /\ confirmationsCount <= requiredConfirmations
    /\ \A i \in Emissions("confirmation") : emitted[i][2] <= requiredConfirmations

\* C18: watch() is called at most once, only after the first fetch yielded no
\* receipt or a receipt without a block hash, and no head notification is handled
\* while the first fetch is outstanding or unanswered.
C18_WatchOnceAfterFirstResponse ==
    /\ watchCalls <= 1
    /\ watcher = "watching" => watchCalls = 1
    /\ watchCalls = 1 => (~firstPending /\ firstReceipt # <<"none">> /\ ~FirstMined)
    /\ (firstPending \/ firstReceipt = <<"none">>)
          => (watcher # "watching" /\ timeoutCounter = 0 /\ headPending = 0)

C18_Witness ==
    /\ watchCalls = 1
    /\ firstReceipt = <<"receipt", "null", "true">>
    /\ timeoutCounter = 2
    /\ watcher = "watching"

====
